---- MODULE Spec2Model ----
(***************************************************************************)
(* Model of Forecast.py: a Tk application with two buttons.                *)
(*   "Upload & Train Model"  -> train_model()  (which calls load_data())   *)
(*   "Predict Calls Offered" -> predict_calls() (which calls plot_graph()) *)
(* The module globals df, model, max_week, week_range and the widgets the  *)
(* handlers write are the state.  Tk runs one handler to completion before *)
(* the next, so each handler is one action.                                *)
(*                                                                         *)
(* Representation.                                                         *)
(*   Optional values are sequences: <<>> is None, <<x>> holds x.           *)
(*   A Date cell of the file is the text "dd-mm-yyyy", written <<d,m,y>>.  *)
(*   A Timestamp is the number of days since 01-01-2024 (a Monday).        *)
(*   A float is an integer count of 1/PredScale units.                     *)
(***************************************************************************)
EXTENDS Integers, Sequences, FiniteSets, TLC

VARIABLES
    df,                  \* global df: None or <<[cols, rows]>>
    model,               \* global model: None or <<[fitted, pred, X]>>
    max_week,            \* global max_week: None or <<[na, v]>>
    week_range,          \* global week_range: None or <<[na, v]>>
    weeks_label,         \* week count shown in weeks_label
    predict_range_label, \* first predictable week shown in predict_range_label
    entry_week,          \* text of the entry_week widget
    result_label,        \* None (initial text) or <<[week, total]>>
    graph_frame,         \* None (no canvas) or <<predicted series drawn>>
    selected,            \* file picked in the last file dialog
    handler,             \* handler dispatched last: "none", "train", "predict",
                         \* or "hung" for a predict that never returned
    shown,               \* message boxes the last handler showed, in order
    raised,              \* the last handler ended in an exception it did not catch
    predicted_data,      \* predicted_data built by the last handler, None if none
    examined             \* calendar days the last handler's date loop examined

vars == <<df, model, max_week, week_range, weeks_label, predict_range_label,
          entry_week, result_label, graph_frame, selected, handler, shown,
          raised, predicted_data, examined>>

None == <<>>
Some(x) == <<x>>

----------------------------------------------------------------------------
(* Bounds of the explored inputs *)

MaxRows == 2
MaxWeekEntry == 3
PredScale == 4

----------------------------------------------------------------------------
(* Calendar: what pandas computes for "%d-%m-%Y" text *)

EpochYear == 2024

IsLeap(y) == (y % 4 = 0 /\ y % 100 # 0) \/ y % 400 = 0

DaysInMonth(m, y) ==
    IF m = 2 THEN (IF IsLeap(y) THEN 29 ELSE 28)
    ELSE IF m \in {4, 6, 9, 11} THEN 30 ELSE 31

DaysInYear(y) == IF IsLeap(y) THEN 366 ELSE 365

RECURSIVE DaysBeforeMonth(_, _)
DaysBeforeMonth(m, y) ==
    IF m <= 1 THEN 0 ELSE DaysBeforeMonth(m - 1, y) + DaysInMonth(m - 1, y)

RECURSIVE DaysBeforeYear(_)
DaysBeforeYear(y) ==
    IF y <= EpochYear THEN 0 ELSE DaysBeforeYear(y - 1) + DaysInYear(y - 1)

\* pd.to_datetime(..., format="%d-%m-%Y", errors="coerce"): NaT (None) unless
\* the text is a real calendar date.  The files explored hold no date before
\* EpochYear, so the day count starts there.
to_datetime(cell) ==
    LET d == cell[1]
        m == cell[2]
        y == cell[3]
    IN  IF y >= EpochYear /\ m \in 1..12 /\ d >= 1 /\ d <= DaysInMonth(m, y)
        THEN Some(DaysBeforeYear(y) + DaysBeforeMonth(m, y) + d - 1)
        ELSE None

\* Timestamp.weekday(): Monday = 0 ... Sunday = 6
weekday(t) == t % 7

RECURSIVE YearOf(_, _)
YearOf(t, y) == IF t < DaysBeforeYear(y + 1) THEN y ELSE YearOf(t, y + 1)

\* .dt.isocalendar().week: the week of the ISO year that holds this week's
\* Thursday.
isoweek(t) ==
    LET thu == t - weekday(t) + 3
        y   == YearOf(thu, EpochYear)
    IN  (thu - DaysBeforeYear(y)) \div 7 + 1

----------------------------------------------------------------------------
(* Files the user can pick *)

Num(n) == [num |-> TRUE, v |-> n]
NotNum == [num |-> FALSE, v |-> 0]

DateCells ==
    { <<1, 1, 2024>>,    \* Monday, week 1
      <<3, 1, 2024>>,    \* Wednesday, week 1
      <<5, 1, 2024>>,    \* Friday, week 1
      <<6, 1, 2024>>,    \* Saturday, week 1
      <<9, 1, 2024>>,    \* Tuesday, week 2
      <<11, 1, 2024>>,   \* Thursday, week 2
      <<30, 2, 2024>> }  \* no such day

\* Rows of the files used to exercise load_data
LoadRows ==
    { [Date |-> c, Calls |-> Num(10)] : c \in DateCells }
      \cup { [Date |-> <<1, 1, 2024>>, Calls |-> NotNum] }

\* Rows of the files used to exercise the two buttons together
TrainRows ==
    { [Date |-> <<5, 1, 2024>>, Calls |-> Num(10)],
      [Date |-> <<9, 1, 2024>>, Calls |-> Num(10)],
      [Date |-> <<1, 1, 2024>>, Calls |-> NotNum] }

SeqsUpTo(S, n) == UNION { [1..k -> S] : k \in 0..n }

\* A file: what the dialog returned, the column names in order, the rows
Cancelled == [kind |-> "cancel", cols |-> <<>>, rows |-> <<>>]

Unreadable == [kind |-> "unreadable", cols |-> <<>>, rows |-> <<>>]

Table(c, r) == [kind |-> "table", cols |-> c, rows |-> r]

AllCols == <<"Date", "Calls Offered">>

\* name in df.columns
HasCol(c, name) == \E i \in 1..Len(c) : c[i] = name

\* Files that make the handler fail before the fit
BrokenFiles ==
    { Cancelled,
      Unreadable,
      Table(<<"Calls Offered">>, <<[Date |-> <<0, 0, 0>>, Calls |-> Num(10)]>>),
      Table(<<"Date">>, <<[Date |-> <<9, 1, 2024>>, Calls |-> NotNum]>>) }

Tables(rowset) == { Table(AllCols, rows) : rows \in SeqsUpTo(rowset, MaxRows) }

\* A file that filtering leaves without rows: a Saturday and an impossible date
WeekendOnly ==
    Table(AllCols, << [Date |-> <<6, 1, 2024>>, Calls |-> Num(10)],
                      [Date |-> <<30, 2, 2024>>, Calls |-> Num(10)] >>)

Files == BrokenFiles \cup Tables(TrainRows) \cup {WeekendOnly}

LoadFiles == Tables(LoadRows)

EntryTexts == {NotNum} \cup { Num(w) : w \in 1..MaxWeekEntry }

\* What XGBRegressor.fit can leave in the regressor: one output per weekday
\* 0..4 (index d + 1), in 1/PredScale units.  The numbers come out of the
\* library, not out of Forecast.py, so a fit picks any of these.
FitOutcomes ==
    { <<5, 6, 7, 8, 9>>,
      <<-1, -2, -3, -1, 0>> }

----------------------------------------------------------------------------
(* Message boxes *)

Msg(title, text) == [title |-> title, text |-> text]

NoFileMsg       == Msg("Error", "No file selected!")
LoadFailedMsg   == Msg("Error", "Failed to load file")
LoadedMsg       == Msg("Success", "File loaded successfully!")
BadFormatMsg    == Msg("Error", "Invalid data format!")
TrainedMsg      == Msg("Success", "Model trained successfully!")
TrainFirstMsg   == Msg("Error", "Please train the model first!")
FutureWeekMsg   == Msg("Input Error", "Please enter a future week number!")
ValidWeekMsg    == Msg("Input Error", "Please enter a valid week number")
PredictFailedMsg == Msg("Error", "Prediction failed")

----------------------------------------------------------------------------
(* Series helpers *)

RECURSIVE SeqMax(_)
SeqMax(s) ==
    IF Len(s) = 1 THEN s[1]
    ELSE LET r == SeqMax(Tail(s)) IN IF s[1] >= r THEN s[1] ELSE r

RECURSIVE SeqMin(_)
SeqMin(s) ==
    IF Len(s) = 1 THEN s[1]
    ELSE LET r == SeqMin(Tail(s)) IN IF s[1] <= r THEN s[1] ELSE r

RECURSIVE SeqSum(_)
SeqSum(s) == IF s = <<>> THEN 0 ELSE s[1] + SeqSum(Tail(s))

\* Series.max() / Series.min() of a UInt32 column: NA when empty
NAValue == [v |-> 0, na |-> TRUE]
IntValue(n) == [v |-> n, na |-> FALSE]

Column(rows, name) == [i \in 1..Len(rows) |-> rows[i][name]]

----------------------------------------------------------------------------
(* load_data *)

\* Lines 33-34: parse the Date column, drop the rows that became NaT.  A row
\* keeps its index label (its position in the file).
ParsedRows(rows) ==
    LET parsed == [i \in 1..Len(rows) |->
                      [Date |-> to_datetime(rows[i].Date),
                       Calls |-> rows[i].Calls, idx |-> i]]
        kept   == SelectSeq(parsed, LAMBDA r : r.Date # None)
    IN  [i \in 1..Len(kept) |->
            [Date |-> kept[i].Date[1], Calls |-> kept[i].Calls, idx |-> kept[i].idx]]

\* Lines 37-38: the Week and Day columns
WithWeekDay(rows) ==
    [i \in 1..Len(rows) |->
        [Date |-> rows[i].Date, Calls |-> rows[i].Calls, idx |-> rows[i].idx,
         Week |-> isoweek(rows[i].Date), Day |-> weekday(rows[i].Date)]]

\* Line 39 with the weekend test off by one: Saturday rows stay
KeepRow_Saturday(r) == r.Day <= 5

\* Line 39: keep only Monday-Friday
KeepRow(r) == r.Day < 5

WeekdayRows(rows) == SelectSeq(rows, KeepRow)

\* Lines 32-39 as a whole
Preprocess(rows) == WeekdayRows(WithWeekDay(ParsedRows(rows)))

\* Line 41
MaxWeekOf(rows) ==
    IF rows = <<>> THEN NAValue ELSE IntValue(SeqMax(Column(rows, "Week")))

MinWeekOf(rows) ==
    IF rows = <<>> THEN NAValue ELSE IntValue(SeqMin(Column(rows, "Week")))

\* Line 42; arithmetic with NA is NA
WeekRangeOf(rows) ==
    LET mx == MaxWeekOf(rows)
        mn == MinWeekOf(rows)
    IN  IF mx.na \/ mn.na THEN NAValue ELSE IntValue(mx.v - mn.v + 1)

\* Line 46: max_week + 1
NextWeekOf(mx) == IF mx.na THEN NAValue ELSE IntValue(mx.v + 1)

\* load_data() on the file f the dialog returned.  ret is the return value;
\* the other fields are the globals and labels as load_data leaves them.
load_data(f) ==
    LET unchanged == [max_week |-> max_week, week_range |-> week_range,
                      weeks_label |-> weeks_label,
                      predict_range_label |-> predict_range_label,
                      shown |-> <<>>, ret |-> None]
    IN  IF f.kind = "cancel"
        THEN [unchanged EXCEPT !.shown = <<NoFileMsg>>]
        ELSE IF f.kind = "unreadable" \/ ~HasCol(f.cols, "Date")
        THEN [unchanged EXCEPT !.shown = <<LoadFailedMsg>>]
        ELSE LET rows == Preprocess(f.rows)
                 mx   == MaxWeekOf(rows)
                 wr   == WeekRangeOf(rows)
             IN  [max_week |-> Some(mx),
                  week_range |-> Some(wr),
                  weeks_label |-> Some(wr),
                  predict_range_label |-> Some(NextWeekOf(mx)),
                  shown |-> <<LoadedMsg>>,
                  ret |-> Some([cols |-> f.cols \o <<"Week", "Day">>, rows |-> rows])]

----------------------------------------------------------------------------
(* train_model *)

\* Line 68: fit raises on a label that is not a number.  On a dataset with no
\* rows the outcome depends on the library version: TrainModel allows both.
FitRaises(rows) == \E i \in 1..Len(rows) : ~rows[i].Calls.num

Regressor(fitted, pred, rows) == [fitted |-> fitted, pred |-> pred, X |-> rows]

Unfitted(rows) == Regressor(FALSE, <<0, 0, 0, 0, 0>>, rows)

\* The "Upload & Train Model" button, f the file picked in the dialog.
TrainModel(f) ==
    \E ld \in {load_data(f)} :
        /\ selected' = f
        /\ handler' = "train"
        /\ df' = ld.ret                                  \* line 57
        /\ max_week' = ld.max_week
        /\ week_range' = ld.week_range
        /\ weeks_label' = ld.weeks_label
        /\ predict_range_label' = ld.predict_range_label
        /\ predicted_data' = None
        /\ examined' = 0
        /\ UNCHANGED <<entry_week, result_label, graph_frame>>
        /\ IF ld.ret = None
           THEN /\ shown' = ld.shown
                /\ raised' = FALSE
                /\ UNCHANGED model
           ELSE IF ~HasCol(ld.ret[1].cols, "Calls Offered")
           THEN /\ shown' = ld.shown \o <<BadFormatMsg>>
                /\ raised' = FALSE
                /\ UNCHANGED model
           ELSE LET rows == ld.ret[1].rows
                IN  \/ /\ FitRaises(rows) \/ rows = <<>>
                       /\ model' = Some(Unfitted(rows))  \* line 67, then 68 raises
                       /\ shown' = ld.shown
                       /\ raised' = TRUE
                    \/ /\ ~FitRaises(rows)
                       /\ \E p \in FitOutcomes :
                             model' = Some(Regressor(TRUE, p, rows))
                       /\ shown' = ld.shown \o <<TrainedMsg>>
                       /\ raised' = FALSE

----------------------------------------------------------------------------
(* predict_calls *)

\* Line 90 taking the first observed date instead of the last
LastDate_Min(rows) == SeqMin(Column(rows, "Date"))

\* Line 90: df["Date"].max()
LastDate(rows) == SeqMax(Column(rows, "Date"))

\* Line 75 with the test dropped
NeedsTraining_Never(m) == FALSE

\* Line 75: model is None
NeedsTraining(m) == m = None

\* Line 81 with < for <=
PastWeek_Strict(week_value, mw) == week_value < mw

\* Line 81: week_value <= max_week
PastWeek(week_value, mw) == week_value <= mw

\* df["Date"].values
DatesOf(rows) == { rows[i].Date : i \in 1..Len(rows) }

\* Line 97: the test a candidate date has to pass
Qualifies(new_date, dates) == weekday(new_date) < 5 /\ new_date \notin dates

\* Lines 93-99: the loop, entered with i = 1 and future_dates = [].  The result
\* holds future_dates and the number of days the loop looked at.
RECURSIVE FutureDates(_, _, _, _)
FutureDates(last_date, dates, i, future_dates) ==
    IF Len(future_dates) >= 5
    THEN [examined |-> i - 1, dates |-> future_dates]
    ELSE LET new_date == last_date + i
         IN  FutureDates(last_date, dates, i + 1,
                         IF Qualifies(new_date, dates)
                         THEN Append(future_dates, new_date)
                         ELSE future_dates)

\* Lines 86-87 and 102: the outputs for weekdays 0..4, in that order, set beside
\* future_dates position by position.
Pair(future_dates, pred, k) == [Date |-> future_dates[k], Pred |-> pred[k]]

PredictedData(future_dates, pred) ==
    << Pair(future_dates, pred, 1), Pair(future_dates, pred, 2),
       Pair(future_dates, pred, 3), Pair(future_dates, pred, 4),
       Pair(future_dates, pred, 5) >>

\* Line 106 with round() for int()
IntOf_Round(x) == (2 * x + PredScale) \div (2 * PredScale)

\* int(x) of a float held in 1/PredScale units: the fraction is cut off
IntOf(x) == IF x >= 0 THEN x \div PredScale ELSE -((-x) \div PredScale)

\* Line 106
TotalCalls(pd) == IntOf(SeqSum(Column(pd, "Pred")))

\* A return or a caught exception before anything was computed
Rejected(msg) ==
    /\ handler' = "predict"
    /\ shown' = <<msg>>
    /\ raised' = FALSE
    /\ predicted_data' = None
    /\ examined' = 0
    /\ UNCHANGED <<result_label, graph_frame>>

\* The "Predict Calls Offered" button, e the text in entry_week.
PredictCalls(e) ==
    /\ entry_week' = e
    /\ UNCHANGED <<df, model, max_week, week_range, weeks_label,
                   predict_range_label, selected>>
    /\ IF NeedsTraining(model)
       THEN Rejected(TrainFirstMsg)                         \* lines 75-77
       ELSE IF ~e.num
       THEN Rejected(ValidWeekMsg)                          \* int() raises ValueError
       ELSE IF max_week = None \/ max_week[1].na
       THEN Rejected(PredictFailedMsg)                      \* <= None, bool(NA): TypeError
       ELSE IF PastWeek(e.v, max_week[1].v)
       THEN Rejected(FutureWeekMsg)                         \* lines 81-83
       ELSE IF model = None
       THEN Rejected(PredictFailedMsg)                      \* None.predict: AttributeError
       ELSE IF ~model[1].fitted
       THEN \/ Rejected(ValidWeekMsg)                       \* NotFittedError, a ValueError
            \/ Rejected(PredictFailedMsg)                   \* or another exception
       ELSE IF df = None
       THEN Rejected(PredictFailedMsg)                      \* None["Date"] raises TypeError
       ELSE IF df[1].rows = <<>>
       THEN /\ handler' = "hung"                            \* NaT: the loop never ends
            /\ shown' = <<>>
            /\ raised' = FALSE
            /\ predicted_data' = None
            /\ examined' = 0
            /\ UNCHANGED <<result_label, graph_frame>>
       ELSE \E loop \in {FutureDates(LastDate(df[1].rows), DatesOf(df[1].rows), 1, <<>>)} :
            \E pd \in {PredictedData(loop.dates, model[1].pred)} :
                /\ handler' = "predict"
                /\ predicted_data' = Some(pd)
                /\ examined' = loop.examined
                /\ raised' = FALSE
                /\ IF ~HasCol(df[1].cols, "Calls Offered")
                   THEN /\ shown' = <<PredictFailedMsg>>    \* plot_graph raises KeyError
                        /\ UNCHANGED <<result_label, graph_frame>>
                   ELSE /\ shown' = <<>>
                        /\ graph_frame' = Some(pd)
                        /\ result_label' = Some([week |-> e.v, total |-> TotalCalls(pd)])

----------------------------------------------------------------------------
(* The application *)

Init ==
    /\ df = None
    /\ model = None
    /\ max_week = None
    /\ week_range = None
    /\ weeks_label = None
    /\ predict_range_label = None
    /\ entry_week = NotNum
    /\ result_label = None
    /\ graph_frame = None
    /\ selected = Cancelled
    /\ handler = "none"
    /\ shown = <<>>
    /\ raised = FALSE
    /\ predicted_data = None
    /\ examined = 0

Train == \E f \in Files : TrainModel(f)

Predict == \E e \in EntryTexts : PredictCalls(e)

Next == Train \/ Predict

Spec == Init /\ [][Next]_vars

\* The train button alone, over the wider set of files
Load == \E f \in LoadFiles : TrainModel(f)

SpecLoad == Init /\ [][Load]_vars

----------------------------------------------------------------------------
(* Vocabulary of the properties *)

\* The step is a press of the predict button
PredictStep == handler' # "train"

\* The week in the entry is a number the week check can compare
WeekKnown(e, mw) == e.num /\ mw # None /\ ~mw[1].na

\* The dates of a predicted series
SeriesDates(pd) == { pd[k].Date : k \in 1..Len(pd) }

\* Calendar facts stated without the day count: month lengths from a table,
\* the weekday by Zeller's congruence (Monday = 0).
MonthLengths == <<31, 28, 31, 30, 31, 30, 31, 31, 30, 31, 30, 31>>

RefIsDate(cell) ==
    LET d == cell[1]
        m == cell[2]
        y == cell[3]
        leap == (y % 4 = 0 /\ y % 100 # 0) \/ y % 400 = 0
    IN  /\ m \in 1..12
        /\ d >= 1
        /\ d <= MonthLengths[m] + (IF m = 2 /\ leap THEN 1 ELSE 0)

RefWeekday(cell) ==
    LET d  == cell[1]
        mm == IF cell[2] < 3 THEN cell[2] + 12 ELSE cell[2]
        yy == IF cell[2] < 3 THEN cell[3] - 1 ELSE cell[3]
        K  == yy % 100
        J  == yy \div 100
        h  == (d + (13 * (mm + 1)) \div 5 + K + K \div 4 + J \div 4 + 5 * J) % 7
    IN  (h + 5) % 7

----------------------------------------------------------------------------
(* C1 *)

\* C1: every press of the predict button that passes the model check and the
\* week check produces exactly 5 (date, count) pairs, each date on Monday-Friday,
\* strictly later than the latest date of the loaded dataset and not a date of
\* the dataset.
C1_FivePairsWheneverChecksPass ==
    [][ (PredictStep /\ model # None /\ WeekKnown(entry_week', max_week)
           /\ entry_week'.v > max_week[1].v)
        => /\ predicted_data' # None
           /\ df # None
           /\ Len(predicted_data'[1]) = 5
           /\ \A k \in 1..5 :
                 LET d == predicted_data'[1][k].Date
                 IN  /\ weekday(d) < 5
                     /\ d > SeqMax(Column(df[1].rows, "Date"))
                     /\ d \notin DatesOf(df[1].rows) ]_vars

----------------------------------------------------------------------------
(* C2 *)

----------------------------------------------------------------------------
(* C3 *)

\* C3: a press of the predict button while model is None shows the train-first
\* error and predicts nothing, draws nothing and leaves the result label alone;
\* a prediction is only produced in a state where an earlier train set (and
\* fitted) the model.
C3_NoPredictionWithoutModel ==
    [][ PredictStep
        => /\ model = None
              => /\ shown' = <<TrainFirstMsg>>
                 /\ ~raised'
                 /\ predicted_data' = None
                 /\ graph_frame' = graph_frame
                 /\ result_label' = result_label
           /\ (predicted_data' # None \/ graph_frame' # graph_frame
                 \/ result_label' # result_label)
              => model # None /\ model[1].fitted ]_vars

\* The predict button was pressed with no model, after a load that set max_week
C3_Witness ==
    /\ handler = "predict"
    /\ model = None
    /\ shown = <<TrainFirstMsg>>
    /\ max_week # None
    /\ entry_week.num

----------------------------------------------------------------------------
(* C4 *)

\* C4: every failure of a train or predict press is caught inside the handler
\* and shown as an error box: no handler ends in an exception it did not catch
\* (nor fails to return).
C4_NoFailureEscapes == ~raised /\ handler # "hung"

----------------------------------------------------------------------------
(* C5 *)

\* C5: after every successful load_data the retained rows are exactly the rows
\* of the file whose Date is a real day-month-year date falling on
\* Monday-Friday, in file order and with their Calls Offered cell.
C5_RetainedRows ==
    (handler = "train" /\ df # None)
    => LET file == selected.rows
           rows == df[1].rows
           keep == { i \in 1..Len(file) :
                       RefIsDate(file[i].Date) /\ RefWeekday(file[i].Date) < 5 }
       IN  /\ { rows[j].idx : j \in 1..Len(rows) } = keep
           /\ Len(rows) = Cardinality(keep)
           /\ \A j \in 1..Len(rows) :
                 /\ rows[j].Calls = file[rows[j].idx].Calls
                 /\ j > 1 => rows[j - 1].idx < rows[j].idx

\* A load that dropped a weekend row, and one that dropped an unparseable row,
\* each beside a row that stayed
C5_Witness ==
    /\ handler = "train"
    /\ df # None
    /\ Len(df[1].rows) = 1
    /\ Len(selected.rows) = 2
    /\ \E i \in 1..2 :
          RefIsDate(selected.rows[i].Date) /\ RefWeekday(selected.rows[i].Date) >= 5

C5_WitnessUnparseable ==
    /\ handler = "train"
    /\ df # None
    /\ Len(df[1].rows) = 1
    /\ Len(selected.rows) = 2
    /\ \E i \in 1..2 : ~RefIsDate(selected.rows[i].Date)

----------------------------------------------------------------------------
(* C6 *)

\* The sum of the predicted values on the chart, in 1/PredScale units
ChartSum == SeqSum(Column(graph_frame[1], "Pred"))

\* C6 as stated: after every successful prediction the total in the result
\* label is the sum of the 5 predicted values rounded to the nearest integer
\* (it is within one half of the sum).
C6_TotalIsNearestInteger ==
    result_label # None
    => LET diff == result_label[1].total * PredScale - ChartSum
       IN  2 * diff <= PredScale /\ -2 * diff <= PredScale

\* C6 amended: after every successful prediction the total in the result label
\* is the sum of the 5 predicted values with its fraction cut off (rounded
\* toward zero): it is the integer next to the sum on the side of zero.
C6_TotalIsTruncatedSum ==
    result_label # None
    => /\ graph_frame # None
       /\ LET total == result_label[1].total
          IN  IF ChartSum >= 0
              THEN total * PredScale <= ChartSum /\ ChartSum < (total + 1) * PredScale
              ELSE (total - 1) * PredScale < ChartSum /\ ChartSum <= total * PredScale

\* A prediction whose sum has a fraction of more than one half
C6_Witness ==
    /\ handler = "predict"
    /\ predicted_data # None
    /\ result_label # None
    /\ 2 * (ChartSum % PredScale) > PredScale

----------------------------------------------------------------------------
(* C7 *)

\* C7: whenever model is not None it is the model fitted on the dataset now
\* held in df.
C7_ModelPairedWithDf ==
    model # None
    => /\ df # None
       /\ model[1].X = df[1].rows

----------------------------------------------------------------------------
(* C8 *)

\* C8: every predict press that reaches the date loop leaves it with five
\* qualifying dates after looking at no more than 7 calendar days after the
\* last observed date, and no reachable press enters the loop without a last
\* observed date (which would never leave it).
C8_LoopEndsWithinSevenDays ==
    /\ handler # "hung"
    /\ predicted_data # None
       => /\ examined <= 7
          /\ Len(predicted_data[1]) = 5
          /\ Cardinality(SeriesDates(predicted_data[1])) = 5
          /\ \A d \in SeriesDates(predicted_data[1]) :
                /\ d > SeqMax(Column(df[1].rows, "Date"))
                /\ d <= SeqMax(Column(df[1].rows, "Date")) + 7

\* The loop ran on a dataset of two dates and used all 7 days
C8_Witness ==
    /\ handler = "predict"
    /\ predicted_data # None
    /\ examined = 7
    /\ Cardinality(DatesOf(df[1].rows)) = 2

----------------------------------------------------------------------------
(* C9 *)

\* C9: in every prediction the count beside each of the 5 dates is the model's
\* output for that date's own weekday.
C9_CountMatchesWeekday ==
    predicted_data # None
    => \A k \in 1..5 :
          predicted_data[1][k].Pred
             = model[1].pred[weekday(predicted_data[1][k].Date) + 1]

----------------------------------------------------------------------------
(* C10 *)

\* The train press ended without a new model: the dialog was cancelled, the
\* file was unreadable or a required column was missing
FailedTrainStep ==
    /\ handler' = "train"
    /\ shown' \in {<<NoFileMsg>>, <<LoadFailedMsg>>, <<LoadedMsg, BadFormatMsg>>}

\* C10: a train press that fails leaves df, max_week, week_range and model as
\* they were.
C10_FailedTrainChangesNothing ==
    [][ FailedTrainStep
        => /\ df' = df
           /\ max_week' = max_week
           /\ week_range' = week_range
           /\ model' = model ]_vars

====
